---- MODULE Spec2Model ----
(***************************************************************************)
(* Model of the chat relay of src/server/app.py: the registry `clients`,   *)
(* the bounded `chat_history`, and the four Socket.IO event handlers       *)
(* connect, disconnect, chat_message and set_username, with the /stats     *)
(* endpoint.  Handlers run on one cooperative (eventlet) loop, so each     *)
(* handler invocation is one atomic step.                                  *)
(*                                                                         *)
(* Strings are sequences of tokens: a token is one character, or a literal *)
(* chunk of a format string kept whole.  Concatenation is \o.              *)
(***************************************************************************)
EXTENDS Integers, Sequences, FiniteSets, TLC

VARIABLES
    clients,       \* dict sid -> [username, connected_at, ip]      (app.py:39)
    keys,          \* insertion order of the dict `clients`
    chat_history,  \* list of chat messages                         (app.py:40)
    now,           \* wall clock in ms, as read by time.time()*1000
    out,           \* what the last handler emitted, in order
    error,         \* exception the last handler raised, or "none"
    ev,            \* the last event delivered by the transport
    used,          \* session ids the transport has handed out so far
    posted         \* history variable: every message appended so far

vars == <<clients, keys, chat_history, now, out, error, ev, used, posted>>

----------------------------------------------------------------------------
(* Program constants *)

MAX_HISTORY == 100
MAX_HISTORY_TO_SEND == 20
MAX_USERNAME_LEN == 20
SID_PREFIX_LEN == 4

(* Bounds of the model *)

MaxClock == 1        \* the clock runs over 0..MaxClock
MaxPosts == 1        \* chat messages accepted in a run of Spec
MaxPostsHist == 102  \* chat messages accepted in a run of SpecHist
MaxBurst == 2        \* chat messages accepted in a run of SpecBurst

----------------------------------------------------------------------------
(* Python helpers *)

Min(a, b) == IF a < b THEN a ELSE b
Max(a, b) == IF a > b THEN a ELSE b

Whitespace == {" ", "\t", "\n"}

RECURSIVE lstrip(_)
lstrip(s) == IF s # <<>> /\ Head(s) \in Whitespace THEN lstrip(Tail(s)) ELSE s

RECURSIVE rstrip(_)
rstrip(s) ==
    IF s # <<>> /\ s[Len(s)] \in Whitespace
    THEN rstrip(SubSeq(s, 1, Len(s) - 1))
    ELSE s

\* Mutant: the string is used as it came
strip_none(s) == s

\* str.strip()
strip(s) == rstrip(lstrip(s))

UpperChars == <<"A","B","C","D","E","F","G","H","I","J","K","L","M",
                "N","O","P","Q","R","S","T","U","V","W","X","Y","Z">>
LowerChars == <<"a","b","c","d","e","f","g","h","i","j","k","l","m",
                "n","o","p","q","r","s","t","u","v","w","x","y","z">>

lower_char(c) ==
    IF \E i \in 1..26 : UpperChars[i] = c
    THEN LowerChars[CHOOSE i \in 1..26 : UpperChars[i] = c]
    ELSE c

\* str.lower()
lower(s) == [i \in 1..Len(s) |-> lower_char(s[i])]

DigitChars == <<"0","1","2","3","4","5","6","7","8","9">>

\* str(n) for n >= 0, as the f-strings format an int
RECURSIVE Str(_)
Str(n) ==
    IF n < 10 THEN <<DigitChars[n + 1]>>
    ELSE Str(n \div 10) \o <<DigitChars[(n % 10) + 1]>>

\* datetime.now().strftime("%H:%M:%S"): second precision
strftime(ms) == Str(ms \div 1000)

\* int(time.time() * 1000)
time_ms == now'

\* s[:n]
prefix(s, n) == SubSeq(s, 1, Min(n, Len(s)))

\* s[-n:]
suffix(s, n) == SubSeq(s, Max(1, Len(s) - n + 1), Len(s))

\* A payload is [type, items]; only a dict has .get(key, default)
has_get(data) == data.type = "dict"
dict_get(data, key, default) ==
    IF key \in DOMAIN data.items THEN data.items[key] ELSE default

\* environ.get(key, default)
environ_get(environ, key, default) ==
    IF key \in DOMAIN environ THEN environ[key] ELSE default

StrVal(s) == [type |-> "str", chars |-> s]
IntVal == [type |-> "int", chars |-> <<>>]

\* the value has a .strip() method
has_strip(v) == v.type = "str"

----------------------------------------------------------------------------
(* Emissions: sio.emit(event, data, room=..., skip_sid=...).  The transport *)
(* registers a session before its connect handler runs and drops it after  *)
(* its disconnect handler returns, so its participants are the keys of cl. *)

emit_room(event, data, sid) == [event |-> event, data |-> data, to |-> {sid}]
emit_all(event, data, cl) == [event |-> event, data |-> data, to |-> DOMAIN cl]
emit_skip(event, data, cl, sid) ==
    [event |-> event, data |-> data, to |-> DOMAIN cl \ {sid}]

\* emit_user_list()
user_list_rest(cl, ks) ==
    [users |-> [i \in 1..(Len(ks) - 1) |-> [id |-> ks[i + 1], username |-> cl[ks[i + 1]].username]]]
user_list(cl, ks) ==
    [users |-> [i \in 1..Len(ks) |-> [id |-> ks[i], username |-> cl[ks[i]].username]]]
emit_user_list(cl, ks) == emit_all("user_list", user_list(cl, ks), cl)

\* clients[sid] = rec
dict_set(cl, sid, rec) == [s \in DOMAIN cl \cup {sid} |-> IF s = sid THEN rec ELSE cl[s]]
keys_set(ks, sid) == IF \E i \in 1..Len(ks) : ks[i] = sid THEN ks ELSE Append(ks, sid)

\* del clients[sid]
dict_del_keep(cl, sid) == cl
dict_del(cl, sid) == [s \in DOMAIN cl \ {sid} |-> cl[s]]
keys_del(ks, sid) == SelectSeq(ks, LAMBDA k : k # sid)

----------------------------------------------------------------------------
(* connect(sid, environ), app.py:63-114 *)

GuestPrefix == <<"G","u","e","s","t","_">>

\* Mutant: the slice is forgotten and the whole id is used
guest_username_whole(sid) == GuestPrefix \o sid

\* f"Guest_{sid[:4]}"
guest_username(sid) == GuestPrefix \o prefix(sid, SID_PREFIX_LEN)

\* Mutant: the slice is forgotten and the whole history is replayed
recent_history_all(h) == h

\* chat_history[-MAX_HISTORY_TO_SEND:] if chat_history else []
recent_history(h) == IF h # <<>> THEN suffix(h, MAX_HISTORY_TO_SEND) ELSE <<>>

welcome_msg(sid, username) ==
    [type |-> "system",
     text |-> <<"Welcome to the chat, ">> \o username
              \o <<"! Type /clear to clear your chat history.">>,
     timestamp |-> strftime(time_ms),
     id |-> <<"welcome_">> \o sid \o <<"_">> \o Str(time_ms)]

history_notice(sid, recent) ==
    [type |-> "system",
     text |-> <<"Showing last ">> \o Str(Len(recent)) \o <<" messages">>,
     timestamp |-> strftime(time_ms),
     id |-> <<"history_notice_">> \o sid \o <<"_">> \o Str(time_ms)]

join_msg(sid, username) ==
    [type |-> "system",
     text |-> username \o <<" has joined the chat">>,
     timestamp |-> strftime(time_ms),
     id |-> <<"join_">> \o sid \o <<"_">> \o Str(time_ms)]

\* Mutant: the replayed messages lose the name they were posted under
replay_relabelled(sid, recent) ==
    IF recent # <<>>
    THEN <<emit_room("message", history_notice(sid, recent), sid)>>
         \o [i \in 1..Len(recent) |->
                emit_room("message", [recent[i] EXCEPT !.username = <<"Unknown">>], sid)]
    ELSE <<>>

\* lines 90-102: the notice, then every recent message, to the new session
replay(sid, recent) ==
    IF recent # <<>>
    THEN <<emit_room("message", history_notice(sid, recent), sid)>>
         \o [i \in 1..Len(recent) |-> emit_room("message", recent[i], sid)]
    ELSE <<>>

\* Mutant: skip_sid is forgotten
emit_join_all(cl, sid) == emit_all("message", join_msg(sid, cl[sid].username), cl)

\* line 111: sio.emit('message', join_msg, skip_sid=sid)
emit_join(cl, sid) == emit_skip("message", join_msg(sid, cl[sid].username), cl, sid)

connect(sid, environ) ==
    LET client_ip == environ_get(environ, "REMOTE_ADDR", "Unknown")
        cl == dict_set(clients, sid,
                       [username |-> guest_username(sid),
                        connected_at |-> time_ms,
                        ip |-> client_ip])
        ks == keys_set(keys, sid)
    IN /\ clients' = cl
       /\ keys' = ks
       /\ out' = <<emit_room("message", welcome_msg(sid, cl[sid].username), sid)>>
                 \o replay(sid, recent_history(chat_history))
                 \o <<emit_join(cl, sid)>>
                 \o <<emit_user_list(cl, ks)>>
       /\ error' = "none"
       /\ UNCHANGED <<chat_history, posted>>

----------------------------------------------------------------------------
(* disconnect(sid), app.py:121-145 *)

leave_msg(sid, username) ==
    [type |-> "system",
     text |-> username \o <<" has left the chat">>,
     timestamp |-> strftime(time_ms),
     id |-> <<"leave_">> \o sid \o <<"_">> \o Str(time_ms)]

\* line 139: sio.emit('message', leave_msg), issued before del clients[sid]
emit_leave(cl, sid) == emit_all("message", leave_msg(sid, cl[sid].username), cl)

\* Mutant: emit_user_list() runs outside the `if sid in clients` block
disconnect_always_lists(sid) ==
    IF sid \in DOMAIN clients
    THEN LET cl == dict_del(clients, sid)
             ks == keys_del(keys, sid)
         IN /\ clients' = cl
            /\ keys' = ks
            /\ out' = <<emit_leave(clients, sid), emit_user_list(cl, ks)>>
            /\ error' = "none"
            /\ UNCHANGED <<chat_history, posted>>
    ELSE /\ out' = <<emit_user_list(clients, keys)>>
         /\ error' = "none"
         /\ UNCHANGED <<clients, keys, chat_history, posted>>

disconnect(sid) ==
    IF sid \in DOMAIN clients
    THEN LET cl == dict_del(clients, sid)
             ks == keys_del(keys, sid)
         IN /\ clients' = cl
            /\ keys' = ks
            /\ out' = <<emit_leave(clients, sid), emit_user_list(cl, ks)>>
            /\ error' = "none"
            /\ UNCHANGED <<chat_history, posted>>
    ELSE /\ out' = <<>>
         /\ error' = "none"
         /\ UNCHANGED <<clients, keys, chat_history, posted>>

----------------------------------------------------------------------------
(* chat_message(sid, data), app.py:147-192 *)

ClearCommand == <<"/","c","l","e","a","r">>

\* Mutant: the comparison forgets .lower()
is_clear_exact(text) == text = ClearCommand

\* text.lower() == "/clear"
is_clear(text) == lower(text) = ClearCommand

clear_msg(sid) ==
    [type |-> "system",
     text |-> <<"Chat history cleared for you">>,
     timestamp |-> strftime(time_ms),
     clear |-> TRUE,
     id |-> <<"clear_">> \o sid \o <<"_">> \o Str(time_ms)]

\* Mutant: the message is labelled with the session's guest name
chat_msg_guest(sid, username, text) ==
    [type |-> "chat",
     username |-> guest_username(sid),
     text |-> text,
     timestamp |-> strftime(time_ms),
     id |-> <<"msg_">> \o Str(time_ms) \o <<"_">> \o sid]

\* Mutant: the message is built with the kind of a notice
chat_msg_system(sid, username, text) ==
    [type |-> "system",
     username |-> username,
     text |-> text,
     timestamp |-> strftime(time_ms),
     id |-> <<"msg_">> \o Str(time_ms) \o <<"_">> \o sid]

chat_msg(sid, username, text) ==
    [type |-> "chat",
     username |-> username,
     text |-> text,
     timestamp |-> strftime(time_ms),
     id |-> <<"msg_">> \o Str(time_ms) \o <<"_">> \o sid]

\* Mutant: the cap is never enforced
append_history_nopop(h, msg) == Append(h, msg)

\* Mutant: pop() takes the newest entry instead of pop(0) the oldest
append_history_poplast(h, msg) ==
    LET h1 == Append(h, msg)
    IN IF Len(h1) > MAX_HISTORY THEN SubSeq(h1, 1, Len(h1) - 1) ELSE h1

\* lines 186-188: append, then pop(0) when over the cap
append_history(h, msg) ==
    LET h1 == Append(h, msg)
    IN IF Len(h1) > MAX_HISTORY THEN Tail(h1) ELSE h1

\* line 192: sio.emit('message', msg)
emit_chat(cl, msg) == emit_all("message", msg, cl)

\* a handler that returns, or raises, before it touches anything
return_early(err) ==
    /\ out' = <<>>
    /\ error' = err
    /\ UNCHANGED <<clients, keys, chat_history, posted>>

\* Mutant: the sender is looked up with a default instead of being required
chat_message_anyone(sid, data) ==
    IF ~has_get(data) THEN return_early("AttributeError")
    ELSE IF ~has_strip(dict_get(data, "text", StrVal(<<>>)))
    THEN return_early("AttributeError")
    ELSE
      LET username == IF sid \in DOMAIN clients
                      THEN clients[sid].username
                      ELSE <<"Unknown">>
          text == strip(dict_get(data, "text", StrVal(<<>>)).chars)
          msg == chat_msg(sid, username, text)
      IN IF text = <<>> THEN return_early("none")
         ELSE IF is_clear(text)
         THEN /\ out' = <<emit_room("message", clear_msg(sid), sid)>>
              /\ error' = "none"
              /\ UNCHANGED <<clients, keys, chat_history, posted>>
         ELSE /\ chat_history' = append_history(chat_history, msg)
              /\ posted' = Append(posted, msg)
              /\ out' = <<emit_chat(clients, msg)>>
              /\ error' = "none"
              /\ UNCHANGED <<clients, keys>>

chat_message(sid, data) ==
    IF sid \notin DOMAIN clients THEN return_early("none")
    ELSE IF ~has_get(data) THEN return_early("AttributeError")
    ELSE IF ~has_strip(dict_get(data, "text", StrVal(<<>>)))
    THEN return_early("AttributeError")
    ELSE
      LET username == clients[sid].username
          text == strip(dict_get(data, "text", StrVal(<<>>)).chars)
          msg == chat_msg(sid, username, text)
      IN IF text = <<>> THEN return_early("none")
         ELSE IF is_clear(text)
         THEN /\ out' = <<emit_room("message", clear_msg(sid), sid)>>
              /\ error' = "none"
              /\ UNCHANGED <<clients, keys, chat_history, posted>>
         ELSE /\ chat_history' = append_history(chat_history, msg)
              /\ posted' = Append(posted, msg)
              /\ out' = <<emit_chat(clients, msg)>>
              /\ error' = "none"
              /\ UNCHANGED <<clients, keys>>

----------------------------------------------------------------------------
(* set_username(sid, data), app.py:194-229 *)

\* line 204: [client['username'] for _, client in clients.items() if _ != sid]
other_usernames(cl, sid) == {cl[s].username : s \in DOMAIN cl \ {sid}}

\* Mutant: the validation forgets the names already in use
username_rejected_nodup(cl, sid, new_username) ==
    \/ new_username = <<>>
    \/ Len(new_username) > MAX_USERNAME_LEN

\* Mutant: a name stays taken once another session has posted under it
username_rejected_ever(cl, sid, new_username) ==
    \/ new_username = <<>>
    \/ Len(new_username) > MAX_USERNAME_LEN
    \/ new_username \in other_usernames(cl, sid)
    \/ \E i \in 1..Len(posted) :
           /\ posted[i].username = new_username
           /\ suffix(posted[i].id, Len(sid)) # sid

\* Mutant: the length of the name is not looked at
username_rejected_anylen(cl, sid, new_username) ==
    \/ new_username = <<>>
    \/ new_username \in other_usernames(cl, sid)

\* Mutant: the name is looked up among the session ids, not the usernames
username_rejected_ids(cl, sid, new_username) ==
    \/ new_username = <<>>
    \/ Len(new_username) > MAX_USERNAME_LEN
    \/ new_username \in DOMAIN cl \ {sid}

\* line 204: the validation that rejects a name
username_rejected(cl, sid, new_username) ==
    \/ new_username = <<>>
    \/ Len(new_username) > MAX_USERNAME_LEN
    \/ new_username \in other_usernames(cl, sid)

\* Mutant: the two names of the announcement are exchanged
change_msg_swapped(sid, old_username, new_username) ==
    [type |-> "system",
     text |-> new_username \o <<" changed their name to ">> \o old_username,
     timestamp |-> strftime(time_ms),
     id |-> <<"rename_">> \o sid \o <<"_">> \o Str(time_ms)]

change_msg(sid, old_username, new_username) ==
    [type |-> "system",
     text |-> old_username \o <<" changed their name to ">> \o new_username,
     timestamp |-> strftime(time_ms),
     id |-> <<"rename_">> \o sid \o <<"_">> \o Str(time_ms)]

\* Mutant: the entry is built anew instead of being updated
set_username_rebuilds(sid, data) ==
    IF sid \notin DOMAIN clients THEN return_early("none")
    ELSE IF ~has_get(data) THEN return_early("AttributeError")
    ELSE IF ~has_strip(dict_get(data, "username", StrVal(<<>>)))
    THEN return_early("AttributeError")
    ELSE
      LET old_username == clients[sid].username
          new_username == strip(dict_get(data, "username", StrVal(<<>>)).chars)
          cl == dict_set(clients, sid,
                         [username |-> new_username,
                          connected_at |-> time_ms,
                          ip |-> "Unknown"])
      IN IF username_rejected(clients, sid, new_username)
         THEN /\ out' = <<emit_room("username_error",
                                    [error |-> <<"Invalid username or already taken">>],
                                    sid)>>
              /\ error' = "none"
              /\ UNCHANGED <<clients, keys, chat_history, posted>>
         ELSE /\ clients' = cl
              /\ out' = <<emit_all("message",
                                   change_msg(sid, old_username, new_username), cl),
                          emit_room("username_changed",
                                    [username |-> new_username], sid),
                          emit_user_list(cl, keys)>>
              /\ error' = "none"
              /\ UNCHANGED <<keys, chat_history, posted>>

set_username(sid, data) ==
    IF sid \notin DOMAIN clients THEN return_early("none")
    ELSE IF ~has_get(data) THEN return_early("AttributeError")
    ELSE IF ~has_strip(dict_get(data, "username", StrVal(<<>>)))
    THEN return_early("AttributeError")
    ELSE
      LET old_username == clients[sid].username
          new_username == strip(dict_get(data, "username", StrVal(<<>>)).chars)
          cl == [clients EXCEPT ![sid].username = new_username]
      IN IF username_rejected(clients, sid, new_username)
         THEN /\ out' = <<emit_room("username_error",
                                    [error |-> <<"Invalid username or already taken">>],
                                    sid)>>
              /\ error' = "none"
              /\ UNCHANGED <<clients, keys, chat_history, posted>>
         ELSE /\ clients' = cl
              /\ out' = <<emit_all("message",
                                   change_msg(sid, old_username, new_username), cl),
                          emit_room("username_changed",
                                    [username |-> new_username], sid),
                          emit_user_list(cl, keys)>>
              /\ error' = "none"
              /\ UNCHANGED <<keys, chat_history, posted>>

----------------------------------------------------------------------------
(* stats(), app.py:806-813: a read-only snapshot returned to the caller *)

server_start_time == 0

stats ==
    /\ out' = <<[event |-> "stats",
                 data |-> [active_users |-> Cardinality(DOMAIN clients),
                           message_count |-> Len(chat_history),
                           uptime |-> time_ms - server_start_time],
                 to |-> {}]>>
    /\ error' = "none"
    /\ UNCHANGED <<clients, keys, chat_history, posted>>

----------------------------------------------------------------------------
(* Inputs *)

\* Two transport-unique session ids with the same first four characters
SidA == <<"a","b","c","d","1">>
SidB == <<"a","b","c","d","2">>
Sids == {SidA, SidB}

NoItems == [k \in {} |-> StrVal(<<>>)]
Payload(key, value) == [type |-> "dict", items |-> [k \in {key} |-> value]]
EmptyPayload == [type |-> "dict", items |-> NoItems]
BarePayload == [type |-> "str", items |-> NoItems]

\* The WSGI environ of each connection: one with REMOTE_ADDR, one without
EnvironOf(sid) ==
    IF sid = SidA THEN [k \in {"REMOTE_ADDR"} |-> "10.0.0.7"] ELSE [k \in {} |-> ""]

LongName == [i \in 1..(MAX_USERNAME_LEN + 1) |-> "x"]

NameStrings == {<<" ">>, <<" ","b","o","b"," ">>, LongName}

TextStrings == {<<" ">>, <<" ","h","i","\n">>, <<" ","/","C","l","e","A","R"," ">>}

NamePayloads ==
    {Payload("username", StrVal(s)) : s \in NameStrings}
    \cup {Payload("username", IntVal), EmptyPayload, BarePayload}

TextPayloads ==
    {Payload("text", StrVal(s)) : s \in TextStrings}
    \cup {Payload("text", IntVal), EmptyPayload, BarePayload}

----------------------------------------------------------------------------
(* The event loop: the transport delivers one event at a time, at a wall   *)
(* clock time that never runs backwards.  It hands every connection a      *)
(* fresh session id; a disconnect or a late event may name any id.         *)

Event(op, sid, data) == [op |-> op, sid |-> sid, data |-> data]

Arrive(t, e) == now' = t /\ ev' = e

Clock == now..Min(now + 1, MaxClock)

Init ==
    /\ clients = [s \in {} |-> [username |-> <<>>, connected_at |-> 0, ip |-> ""]]
    /\ keys = <<>>
    /\ chat_history = <<>>
    /\ now = 0
    /\ out = <<>>
    /\ error = "none"
    /\ ev = Event("start", <<>>, NoItems)
    /\ used = {}
    /\ posted = <<>>

Connect ==
    \E t \in Clock, sid \in Sids \ used :
        /\ Arrive(t, Event("connect", sid, EnvironOf(sid)))
        /\ used' = used \cup {sid}
        /\ connect(sid, EnvironOf(sid))

Disconnect ==
    \E t \in Clock, sid \in Sids :
        /\ Arrive(t, Event("disconnect", sid, NoItems))
        /\ UNCHANGED used
        /\ disconnect(sid)

ChatMessage ==
    \E t \in Clock, sid \in Sids, data \in TextPayloads :
        /\ Arrive(t, Event("chat_message", sid, data))
        /\ UNCHANGED used
        /\ chat_message(sid, data)
        /\ Len(posted') <= MaxPosts

SetUsername ==
    \E t \in Clock, sid \in Sids, data \in NamePayloads :
        /\ Arrive(t, Event("set_username", sid, data))
        /\ UNCHANGED used
        /\ set_username(sid, data)

Stats ==
    \E t \in Clock :
        /\ Arrive(t, Event("stats", <<>>, NoItems))
        /\ UNCHANGED used
        /\ stats

Next == Connect \/ Disconnect \/ ChatMessage \/ SetUsername \/ Stats

Spec == Init /\ [][Next]_vars

----------------------------------------------------------------------------
(* A long run for the history buffer: one session posts the same text, one *)
(* millisecond apart, until the cap MAX_HISTORY is passed; the other       *)
(* session may connect at any point, and /stats may be read at any point.  *)

HistText == Payload("text", StrVal(<<" ","h","i","\n">>))

ConnectHist ==
    \E sid \in Sids \ used :
        /\ Arrive(now, Event("connect", sid, EnvironOf(sid)))
        /\ used' = used \cup {sid}
        /\ connect(sid, EnvironOf(sid))

ChatMessageHist ==
    /\ SidA \in DOMAIN clients
    /\ Len(posted) < MaxPostsHist
    /\ Arrive(now + 1, Event("chat_message", SidA, HistText))
    /\ UNCHANGED used
    /\ chat_message(SidA, HistText)

StatsHist ==
    /\ Arrive(now, Event("stats", <<>>, NoItems))
    /\ UNCHANGED used
    /\ stats

NextHist == ConnectHist \/ ChatMessageHist \/ StatsHist

SpecHist == Init /\ [][NextHist]_vars

----------------------------------------------------------------------------
(* Send failures.  The handlers call sio.emit with no try/except around    *)
(* it.  A delivery that fails is either swallowed by the transport, and    *)
(* the handler runs on as above, or it raises out of sio.emit, and the     *)
(* handler stops at that line: the emissions before the k-th were sent,    *)
(* the statements after it are not run.                                    *)

sent_before(outs, k) == SubSeq(outs, 1, k - 1)

\* every statement that changes clients precedes the first emit (line 88)
connect_send_fails(sid, environ) ==
    LET client_ip == environ_get(environ, "REMOTE_ADDR", "Unknown")
        cl == dict_set(clients, sid,
                       [username |-> guest_username(sid),
                        connected_at |-> time_ms,
                        ip |-> client_ip])
        ks == keys_set(keys, sid)
        outs == <<emit_room("message", welcome_msg(sid, cl[sid].username), sid)>>
                \o replay(sid, recent_history(chat_history))
                \o <<emit_join(cl, sid)>>
                \o <<emit_user_list(cl, ks)>>
    IN \E k \in 1..Len(outs) :
        /\ clients' = cl
        /\ keys' = ks
        /\ out' = sent_before(outs, k)
        /\ error' = "SendFailure"
        /\ UNCHANGED <<chat_history, posted>>

\* the emit of line 139 precedes del clients[sid] (line 142); the emit of
\* line 234 follows it
disconnect_send_fails(sid) ==
    /\ sid \in DOMAIN clients
    /\ \/ /\ out' = <<>>
          /\ UNCHANGED <<clients, keys>>
       \/ /\ clients' = dict_del(clients, sid)
          /\ keys' = keys_del(keys, sid)
          /\ out' = <<emit_leave(clients, sid)>>
    /\ error' = "SendFailure"
    /\ UNCHANGED <<chat_history, posted>>

\* the emit of line 169, or the emit of line 192 after the append of 186-188
chat_message_send_fails(sid, data) ==
    /\ sid \in DOMAIN clients
    /\ has_get(data)
    /\ has_strip(dict_get(data, "text", StrVal(<<>>)))
    /\ LET username == clients[sid].username
           text == strip(dict_get(data, "text", StrVal(<<>>)).chars)
           msg == chat_msg(sid, username, text)
       IN /\ text # <<>>
          /\ IF is_clear(text)
             THEN UNCHANGED <<chat_history, posted>>
             ELSE /\ chat_history' = append_history(chat_history, msg)
                  /\ posted' = Append(posted, msg)
    /\ out' = <<>>
    /\ error' = "SendFailure"
    /\ UNCHANGED <<clients, keys>>

\* the emit of line 206, or one of lines 223, 226, 234 after the update of 210
set_username_send_fails(sid, data) ==
    /\ sid \in DOMAIN clients
    /\ has_get(data)
    /\ has_strip(dict_get(data, "username", StrVal(<<>>)))
    /\ LET old_username == clients[sid].username
           new_username == strip(dict_get(data, "username", StrVal(<<>>)).chars)
           cl == [clients EXCEPT ![sid].username = new_username]
           outs == <<emit_all("message",
                              change_msg(sid, old_username, new_username), cl),
                     emit_room("username_changed", [username |-> new_username], sid),
                     emit_user_list(cl, keys)>>
       IN IF username_rejected(clients, sid, new_username)
          THEN /\ out' = <<>>
               /\ UNCHANGED clients
          ELSE \E k \in 1..Len(outs) :
                 /\ clients' = cl
                 /\ out' = sent_before(outs, k)
    /\ error' = "SendFailure"
    /\ UNCHANGED <<keys, chat_history, posted>>

ConnectSendFails ==
    \E t \in Clock, sid \in Sids \ used :
        /\ Arrive(t, Event("connect", sid, EnvironOf(sid)))
        /\ used' = used \cup {sid}
        /\ connect_send_fails(sid, EnvironOf(sid))

DisconnectSendFails ==
    \E t \in Clock, sid \in Sids :
        /\ Arrive(t, Event("disconnect", sid, NoItems))
        /\ UNCHANGED used
        /\ disconnect_send_fails(sid)

ChatMessageSendFails ==
    \E t \in Clock, sid \in Sids, data \in TextPayloads :
        /\ Arrive(t, Event("chat_message", sid, data))
        /\ UNCHANGED used
        /\ chat_message_send_fails(sid, data)
        /\ Len(posted') <= MaxPosts

SetUsernameSendFails ==
    \E t \in Clock, sid \in Sids, data \in NamePayloads :
        /\ Arrive(t, Event("set_username", sid, data))
        /\ UNCHANGED used
        /\ set_username_send_fails(sid, data)

NextFail ==
    \/ Connect \/ Disconnect \/ ChatMessage \/ SetUsername
    \/ ConnectSendFails \/ DisconnectSendFails
    \/ ChatMessageSendFails \/ SetUsernameSendFails

SpecFail == Init /\ [][NextFail]_vars

----------------------------------------------------------------------------
(* A transport that breaks its promise of fresh ids: a connect event may   *)
(* name an id that is in the registry.                                     *)

Reconnect ==
    \E t \in Clock, sid \in DOMAIN clients :
        /\ Arrive(t, Event("connect", sid, EnvironOf(sid)))
        /\ UNCHANGED used
        /\ connect(sid, EnvironOf(sid))

NextReuse == Connect \/ Disconnect \/ SetUsername \/ Reconnect

SpecReuse == Init /\ [][NextReuse]_vars

----------------------------------------------------------------------------
(* Renames among more names: two free names and the guest name that both   *)
(* session ids are given on connect.                                       *)

WideNameStrings ==
    {<<" ","b","o","b"," ">>, <<"a","l">>, guest_username(SidA)}

WideNamePayloads == {Payload("username", StrVal(s)) : s \in WideNameStrings}

SetUsernameWide ==
    \E t \in Clock, sid \in Sids, data \in WideNamePayloads :
        /\ Arrive(t, Event("set_username", sid, data))
        /\ UNCHANGED used
        /\ set_username(sid, data)

NextNames == Connect \/ Disconnect \/ SetUsernameWide

SpecNames == Init /\ [][NextNames]_vars

----------------------------------------------------------------------------
(* Names that change hands: the renames of SpecNames, and posts that are   *)
(* stored under the name the poster holds at the time.                     *)

NamedPayload == Payload("text", StrVal(<<"h","i">>))

ChatMessageNamed ==
    \E t \in Clock, sid \in Sids :
        /\ Arrive(t, Event("chat_message", sid, NamedPayload))
        /\ UNCHANGED used
        /\ chat_message(sid, NamedPayload)
        /\ Len(posted') <= MaxPosts

NextRelease == Connect \/ Disconnect \/ SetUsernameWide \/ ChatMessageNamed

SpecRelease == Init /\ [][NextRelease]_vars

----------------------------------------------------------------------------
(* A burst of posts: sessions connect, leave and post two different texts, *)
(* possibly within the same millisecond.                                   *)

BurstPayloads ==
    {Payload("text", StrVal(<<"h","i">>)), Payload("text", StrVal(<<"y","o">>))}

ChatMessageBurst ==
    \E t \in Clock, sid \in Sids, data \in BurstPayloads :
        /\ Arrive(t, Event("chat_message", sid, data))
        /\ UNCHANGED used
        /\ chat_message(sid, data)
        /\ Len(posted') <= MaxBurst

NextBurst == Connect \/ Disconnect \/ ChatMessageBurst

SpecBurst == Init /\ [][NextBurst]_vars

----------------------------------------------------------------------------
(* Properties *)

Known(sid) == sid \in DOMAIN clients

\* the payload of the last event carries a string under `key`
HasString(data, key) ==
    /\ data.type = "dict"
    /\ key \in DOMAIN data.items
    /\ data.items[key].type = "str"

Trimmed(data, key) == strip(data.items[key].chars)

Last(s) == s[Len(s)]
Front(s) == SubSeq(s, 1, Len(s) - 1)

\* C1: no two sessions in the registry have the same current username.
C1_UniqueUsernames ==
    \A s1 \in DOMAIN clients, s2 \in DOMAIN clients :
        s1 # s2 => clients[s1].username # clients[s2].username

\* C2: the history never holds more than MAX_HISTORY messages in a state
\* another handler can observe, nor in a /stats snapshot.
C2_HistoryBounded ==
    /\ Len(chat_history) <= MAX_HISTORY
    /\ ev.op = "stats" => out[1].data.message_count <= MAX_HISTORY

C2_Witness ==
    /\ Len(posted) > MAX_HISTORY
    /\ ev.op = "stats"
    /\ out[1].data.message_count = MAX_HISTORY

\* C3: after n accepted messages the history is the last min(n, MAX_HISTORY)
\* of them, in the order they were accepted.
C3_HistoryIsLastPosted ==
    LET n == Len(posted)
        k == Min(n, MAX_HISTORY)
    IN chat_history = [i \in 1..k |-> posted[n - k + i]]

C3_Witness ==
    /\ Len(posted) = MAX_HISTORY + 1
    /\ ev.op = "chat_message"
    /\ chat_history[1] = posted[2]
    /\ chat_history[1] # posted[1]
    /\ chat_history[MAX_HISTORY] = posted[MAX_HISTORY + 1]

\* the chat messages among the emissions `es` that reach session sid
ChatsSentTo(es, sid) ==
    LET sel == SelectSeq(es, LAMBDA e : /\ e.event = "message"
                                         /\ e.data.type = "chat"
                                         /\ sid \in e.to)
    IN [i \in 1..Len(sel) |-> sel[i].data]

NoticeText(n) == <<"Showing last ">> \o Str(n) \o <<" messages">>

IsNotice(e, sid, n) ==
    /\ e.event = "message"
    /\ e.data.type = "system"
    /\ e.data.text = NoticeText(n)
    /\ e.to = {sid}

\* C4: on connect the new session is sent exactly the last
\* min(len(history), MAX_HISTORY_TO_SEND) history messages, in stored order,
\* and a count notice stating that number immediately before them if and only
\* if the history is non-empty.
C4_Replay ==
    [][ev'.op = "connect" =>
        LET sid == ev'.sid
            h == chat_history
            n == Min(Len(h), MAX_HISTORY_TO_SEND)
            notices == {j \in 1..Len(out') : \E m \in 0..MAX_HISTORY : IsNotice(out'[j], sid, m)}
        IN /\ ChatsSentTo(out', sid) = [i \in 1..n |-> h[Len(h) - n + i]]
           /\ (notices # {}) <=> (h # <<>>)
           /\ \A j \in notices :
                /\ IsNotice(out'[j], sid, n)
                /\ notices = {j}
                /\ \A i \in 1..n :
                     /\ j + i <= Len(out')
                     /\ out'[j + i] = [event |-> "message",
                                       data |-> h[Len(h) - n + i],
                                       to |-> {sid}]
    ]_vars

C4_Witness ==
    /\ ev.op = "connect"
    /\ Len(chat_history) > MAX_HISTORY_TO_SEND
    /\ IsNotice(out[2], ev.sid, MAX_HISTORY_TO_SEND)
    /\ out[3].data = chat_history[Len(chat_history) - MAX_HISTORY_TO_SEND + 1]
    /\ Len(ChatsSentTo(out, ev.sid)) = MAX_HISTORY_TO_SEND

\* C5: a chat_message from a session of the registry whose trimmed text is
\* "/clear" in any letter case emits exactly one system message with
\* clear = TRUE, to the requester only; the history is unchanged and holds no
\* such text.
C5_ClearIsLocal ==
    [][(/\ ev'.op = "chat_message"
        /\ Known(ev'.sid)
        /\ HasString(ev'.data, "text")
        /\ lower(Trimmed(ev'.data, "text")) = <<"/","c","l","e","a","r">>)
       =>
       /\ Len(out') = 1
       /\ out'[1].event = "message"
       /\ out'[1].to = {ev'.sid}
       /\ out'[1].data.type = "system"
       /\ "clear" \in DOMAIN out'[1].data
       /\ out'[1].data.clear = TRUE
       /\ chat_history' = chat_history
       /\ \A i \in 1..Len(chat_history') :
            lower(strip(chat_history'[i].text)) # <<"/","c","l","e","a","r">>
    ]_vars

C5_Witness ==
    /\ ev.op = "chat_message"
    /\ Known(ev.sid)
    /\ HasString(ev.data, "text")
    /\ lower(Trimmed(ev.data, "text")) = <<"/","c","l","e","a","r">>
    /\ Trimmed(ev.data, "text") # <<"/","c","l","e","a","r">>
    /\ chat_history # <<>>
    /\ Cardinality(DOMAIN clients) > 1
    /\ Len(out) = 1
    /\ out[1].to = {ev.sid}

\* C6: a set_username from a known session whose trimmed name is empty,
\* longer than 20 characters, or the current username of another session is
\* rejected: the registry is unchanged and the only emission is one
\* username_error to the requester.
C6_RenameRejected ==
    [][(/\ ev'.op = "set_username"
        /\ Known(ev'.sid)
        /\ HasString(ev'.data, "username")
        /\ LET name == Trimmed(ev'.data, "username")
           IN \/ name = <<>>
              \/ Len(name) > 20
              \/ \E s \in DOMAIN clients \ {ev'.sid} : clients[s].username = name)
       =>
       /\ clients' = clients
       /\ keys' = keys
       /\ Len(out') = 1
       /\ out'[1].event = "username_error"
       /\ out'[1].to = {ev'.sid}
    ]_vars

C6_Witness ==
    /\ ev.op = "set_username"
    /\ Known(ev.sid)
    /\ HasString(ev.data, "username")
    /\ \E s \in DOMAIN clients \ {ev.sid} :
         /\ clients[s].username = Trimmed(ev.data, "username")
         /\ clients[s].username # clients[ev.sid].username
    /\ Len(out) = 1
    /\ out[1].event = "username_error"

\* C7: an accepted chat message (known sender, non-empty trimmed text, not
\* /clear) is appended to the history with the sender's current username and
\* the trimmed text, and is emitted once, to every session of the registry,
\* the sender included.
C7_ChatAppendedAndBroadcast ==
    [][(/\ ev'.op = "chat_message"
        /\ Known(ev'.sid)
        /\ HasString(ev'.data, "text")
        /\ Trimmed(ev'.data, "text") # <<>>
        /\ lower(Trimmed(ev'.data, "text")) # <<"/","c","l","e","a","r">>)
       =>
       /\ chat_history' # <<>>
       /\ Front(chat_history') =
            (IF Len(chat_history) < MAX_HISTORY THEN chat_history ELSE Tail(chat_history))
       /\ Last(chat_history').type = "chat"
       /\ Last(chat_history').username = clients[ev'.sid].username
       /\ Last(chat_history').text = Trimmed(ev'.data, "text")
       /\ out' = <<[event |-> "message",
                    data |-> Last(chat_history'),
                    to |-> DOMAIN clients]>>
       /\ ev'.sid \in out'[1].to
    ]_vars

C7_Witness ==
    /\ ev.op = "chat_message"
    /\ Known(ev.sid)
    /\ Cardinality(DOMAIN clients) = 2
    /\ clients[ev.sid].username # guest_username(ev.sid)
    /\ chat_history # <<>>
    /\ Last(chat_history).username = clients[ev.sid].username
    /\ Last(chat_history).text = <<"h","i">>
    /\ ev.data.items["text"].chars # <<"h","i">>
    /\ out = <<[event |-> "message", data |-> Last(chat_history), to |-> DOMAIN clients]>>

\* C8: on disconnect of a known session the session is removed, and the
\* "left" notice naming its username goes only to the sessions that remain,
\* followed by a user list to the remaining sessions without the removed one.
C8_LeftNoticeToRemaining ==
    [][(ev'.op = "disconnect" /\ Known(ev'.sid))
       =>
       /\ ~(ev'.sid \in DOMAIN clients')
       /\ Len(out') = 2
       /\ out'[1].event = "message"
       /\ out'[1].data.text = clients[ev'.sid].username \o <<" has left the chat">>
       /\ out'[1].to = DOMAIN clients'
       /\ out'[2].event = "user_list"
       /\ out'[2].to = DOMAIN clients'
       /\ \A i \in 1..Len(out'[2].data.users) : out'[2].data.users[i].id # ev'.sid
    ]_vars

\* C9: a disconnect for an id that is not in the registry changes neither
\* registry nor history and emits nothing, so a second disconnect of the same
\* id leaves the state of the first.
C9_DisconnectUnknownIsNoop ==
    [][(ev'.op = "disconnect" /\ ~Known(ev'.sid))
       =>
       /\ clients' = clients
       /\ keys' = keys
       /\ chat_history' = chat_history
       /\ out' = <<>>
       /\ error' = "none"
    ]_vars

\* a second disconnect of a session that was registered and has been removed
C9_Witness ==
    /\ ev.op = "disconnect"
    /\ ev.sid \in used
    /\ ~Known(ev.sid)
    /\ out = <<>>
    /\ DOMAIN clients # {}

IdStartsWith(e, tag) ==
    /\ e.event = "message"
    /\ e.data.type = "system"
    /\ Head(e.data.id) = tag

\* C10: one connect emits, in this order: the welcome to the new session;
\* if the history is non-empty, the count notice and the replayed messages to
\* the new session; the "joined" notice to every other session and not the
\* new one; the user list to all sessions, the new one included.
C10_ConnectOrder ==
    [][ev'.op = "connect" =>
        LET sid == ev'.sid
            k == IF chat_history = <<>> THEN 0
                 ELSE 1 + Min(Len(chat_history), MAX_HISTORY_TO_SEND)
        IN /\ Len(out') = k + 3
           /\ IdStartsWith(out'[1], "welcome_")
           /\ out'[1].to = {sid}
           /\ k > 0 => /\ IdStartsWith(out'[2], "history_notice_")
                       /\ out'[2].to = {sid}
                       /\ \A i \in 3..(k + 1) :
                            /\ out'[i].event = "message"
                            /\ out'[i].data.type = "chat"
                            /\ out'[i].to = {sid}
           /\ IdStartsWith(out'[k + 2], "join_")
           /\ out'[k + 2].to = DOMAIN clients' \ {sid}
           /\ out'[k + 3].event = "user_list"
           /\ out'[k + 3].to = DOMAIN clients'
           /\ sid \in DOMAIN clients'
    ]_vars

C10_Witness ==
    /\ ev.op = "connect"
    /\ Len(chat_history) = MAX_HISTORY
    /\ Cardinality(DOMAIN clients) = 2
    /\ Len(out) = MAX_HISTORY_TO_SEND + 4
    /\ IdStartsWith(out[MAX_HISTORY_TO_SEND + 3], "join_")
    /\ out[MAX_HISTORY_TO_SEND + 3].to = DOMAIN clients \ {ev.sid}
    /\ out[MAX_HISTORY_TO_SEND + 4].to = DOMAIN clients


\* the name asked for by the last event is one set_username accepts
NameAccepted(cl, sid, data) ==
    /\ HasString(data, "username")
    /\ Trimmed(data, "username") # <<>>
    /\ Len(Trimmed(data, "username")) <= 20
    /\ \A s \in DOMAIN cl \ {sid} : cl[s].username # Trimmed(data, "username")

\* C11: a successful set_username changes only the requester's username and
\* emits, in this order: the system message "old changed their name to new"
\* to all sessions, a username_changed with the new name to the requester
\* only, and a user list to all sessions that shows the new name.
C11_RenameSuccess ==
    [][(/\ ev'.op = "set_username"
        /\ Known(ev'.sid)
        /\ NameAccepted(clients, ev'.sid, ev'.data))
       =>
       LET sid == ev'.sid
           old == clients[sid].username
           new == Trimmed(ev'.data, "username")
       IN /\ DOMAIN clients' = DOMAIN clients
          /\ \A s \in DOMAIN clients \ {sid} : clients'[s] = clients[s]
          /\ clients'[sid] = [username |-> new,
                              connected_at |-> clients[sid].connected_at,
                              ip |-> clients[sid].ip]
          /\ keys' = keys
          /\ Len(out') = 3
          /\ out'[1].event = "message"
          /\ out'[1].data.type = "system"
          /\ out'[1].data.text = old \o <<" changed their name to ">> \o new
          /\ out'[1].to = DOMAIN clients
          /\ out'[2] = [event |-> "username_changed",
                        data |-> [username |-> new],
                        to |-> {sid}]
          /\ out'[3].event = "user_list"
          /\ out'[3].to = DOMAIN clients
          /\ \E i \in 1..Len(out'[3].data.users) :
               out'[3].data.users[i] = [id |-> sid, username |-> new]
    ]_vars

C11_Witness ==
    /\ ev.op = "set_username"
    /\ Known(ev.sid)
    /\ Cardinality(DOMAIN clients) = 2
    /\ clients[ev.sid].username = <<"b","o","b">>
    /\ Len(out) = 3
    /\ out[1].data.text = guest_username(ev.sid) \o <<" changed their name to ">>
                          \o <<"b","o","b">>
    /\ out[2].event = "username_changed"
    /\ out[3].to = DOMAIN clients


\* C12: every message event emitted in one server lifetime carries an id that
\* no other emitted message event carries, two chat messages posted by one
\* session within the same millisecond included.
C12_UniqueMessageIds ==
    \A i \in 1..Len(posted), j \in 1..Len(posted) :
        i # j => posted[i].id # posted[j].id


PayloadKey(op) == IF op = "chat_message" THEN "text" ELSE "username"

\* C13: a chat_message or set_username with a malformed payload (no mapping,
\* a missing field, a value that is no string) from a known session is a
\* no-op: the handler does not raise, registry and history are unchanged.
C13_MalformedIsNoop ==
    [][(/\ ev'.op \in {"chat_message", "set_username"}
        /\ Known(ev'.sid)
        /\ ~HasString(ev'.data, PayloadKey(ev'.op)))
       =>
       /\ error' = "none"
       /\ clients' = clients
       /\ keys' = keys
       /\ chat_history' = chat_history
    ]_vars


Holders(cl, name) == {s \in DOMAIN cl : cl[s].username = name}

Emitted(es, event) == \E i \in 1..Len(es) : es[i].event = event

\* C14: of two set_username requests from two different sessions for the
\* same target name, in either order, at most one succeeds: a request
\* succeeds exactly when no other session holds the name, is answered with
\* username_error otherwise, and never makes a second holder of the name.
C14_OneRenameWins ==
    [][(/\ ev'.op = "set_username"
        /\ Known(ev'.sid)
        /\ HasString(ev'.data, "username")
        /\ Trimmed(ev'.data, "username") # <<>>
        /\ Len(Trimmed(ev'.data, "username")) <= 20)
       =>
       LET sid == ev'.sid
           name == Trimmed(ev'.data, "username")
           others == Holders(clients, name) \ {sid}
       IN /\ Emitted(out', "username_changed") <=> others = {}
          /\ Emitted(out', "username_error") <=> others # {}
          /\ others # {} => Holders(clients', name) = Holders(clients, name)
          /\ others = {} => Holders(clients', name) = {sid}
    ]_vars

\* the second of two requests for "bob": the first requester holds it
C14_Witness ==
    /\ ev.op = "set_username"
    /\ HasString(ev.data, "username")
    /\ Trimmed(ev.data, "username") = <<"b","o","b">>
    /\ Cardinality(DOMAIN clients) = 2
    /\ Known(ev.sid)
    /\ Holders(clients, <<"b","o","b">>) = DOMAIN clients \ {ev.sid}
    /\ Emitted(out, "username_error")
    /\ ~Emitted(out, "username_changed")


\* C15: a chat_message or set_username for a session id that is not in the
\* registry changes neither registry nor history and emits nothing.
C15_UnknownSessionIgnored ==
    [][(ev'.op \in {"chat_message", "set_username"} /\ ~Known(ev'.sid))
       =>
       /\ clients' = clients
       /\ keys' = keys
       /\ chat_history' = chat_history
       /\ out' = <<>>
       /\ error' = "none"
    ]_vars

\* a well-formed post that arrives after its session's disconnect
C15_Witness ==
    /\ ev.op = "chat_message"
    /\ ev.sid \in used
    /\ ~Known(ev.sid)
    /\ DOMAIN clients # {}
    /\ HasString(ev.data, "text")
    /\ Trimmed(ev.data, "text") = <<"h","i">>
    /\ out = <<>>
    /\ chat_history = <<>>


\* C16: a failing send never prevents or rolls back the mutation of the event
\* that triggered it: when a handler stops at a failed send, the session is
\* already registered (connect) or removed (disconnect), the message already
\* stored (chat_message), the name already changed (set_username).
C16_SendFailureKeepsMutation ==
    [][(error' = "SendFailure")
       =>
       /\ ev'.op = "connect" => ev'.sid \in DOMAIN clients'
       /\ ev'.op = "disconnect" => ~(ev'.sid \in DOMAIN clients')
       /\ (ev'.op = "chat_message"
           /\ lower(Trimmed(ev'.data, "text")) # <<"/","c","l","e","a","r">>)
          => /\ Len(posted') = Len(posted) + 1
             /\ Last(chat_history').text = Trimmed(ev'.data, "text")
       /\ (ev'.op = "set_username" /\ NameAccepted(clients, ev'.sid, ev'.data))
          => clients'[ev'.sid].username = Trimmed(ev'.data, "username")
    ]_vars


\* C17: a connect for an id that is already in the registry fails: the
\* existing session keeps its username and its connect time.
C17_ConnectExistingFails ==
    [][(ev'.op = "connect" /\ Known(ev'.sid))
       =>
       /\ clients'[ev'.sid].username = clients[ev'.sid].username
       /\ clients'[ev'.sid].connected_at = clients[ev'.sid].connected_at
    ]_vars


\* C18: a set_username whose trimmed name is the requester's own current
\* username is a no-op success: no username_error is sent and the registry
\* is the same after it as before.
C18_RenameToOwnName ==
    [][(/\ ev'.op = "set_username"
        /\ Known(ev'.sid)
        /\ HasString(ev'.data, "username")
        /\ Trimmed(ev'.data, "username") = clients[ev'.sid].username)
       =>
       /\ ~Emitted(out', "username_error")
       /\ Emitted(out', "username_changed")
       /\ clients' = clients
       /\ keys' = keys
    ]_vars


\* the user_list emissions among `es`
UserLists(es) == {i \in 1..Len(es) : es[i].event = "user_list"}

\* the ids listed by a user_list payload
ListedIds(data) == {data.users[i].id : i \in 1..Len(data.users)}

\* C19: every user_list is addressed to all sessions of the registry at the
\* time it is emitted, and lists each registered session exactly once with
\* its current username, so its length is the number of sessions; a connect,
\* a successful rename and a disconnect of a known session each end with one.
C19_UserList ==
    [][/\ \A i \in UserLists(out') :
            /\ out'[i].to = DOMAIN clients'
            /\ Len(out'[i].data.users) = Cardinality(DOMAIN clients')
            /\ ListedIds(out'[i].data) = DOMAIN clients'
            /\ \A j \in 1..Len(out'[i].data.users) :
                   out'[i].data.users[j].username
                       = clients'[out'[i].data.users[j].id].username
       /\ (\/ ev'.op = "connect"
           \/ ev'.op = "disconnect" /\ Known(ev'.sid)
           \/ ev'.op = "set_username" /\ Emitted(out', "username_changed"))
          => /\ Cardinality(UserLists(out')) = 1
             /\ Len(out') \in UserLists(out')
    ]_vars

C19_Witness ==
    /\ ev.op = "set_username"
    /\ Emitted(out, "username_changed")
    /\ Cardinality(DOMAIN clients) = 2
    /\ out[Len(out)].event = "user_list"
    /\ Len(out[Len(out)].data.users) = 2
    /\ out[Len(out)].data.users[1].username # out[Len(out)].data.users[2].username

\* the ids in the dict's insertion order
KeySet(ks) == {ks[i] : i \in 1..Len(ks)}

\* C20: the registry's keys are exactly the ids that were connected and not
\* yet disconnected: connect adds its id, disconnect removes its id, every
\* other event leaves the key set as it is, and an id that was connected and
\* is gone is not put back by any event.
C20_RegistryIsConnected ==
    [][/\ DOMAIN clients' \subseteq used'
       /\ KeySet(keys') = DOMAIN clients'
       /\ Len(keys') = Cardinality(DOMAIN clients')
       /\ ev'.op = "connect" => DOMAIN clients' = DOMAIN clients \cup {ev'.sid}
       /\ ev'.op = "disconnect" => DOMAIN clients' = DOMAIN clients \ {ev'.sid}
       /\ ev'.op \in {"chat_message", "set_username", "stats"}
              => DOMAIN clients' = DOMAIN clients
       /\ \A sid \in used \ DOMAIN clients : sid \notin DOMAIN clients'
    ]_vars

C20_Witness ==
    /\ used = Sids
    /\ Cardinality(DOMAIN clients) = 1
    /\ ev.op \in {"chat_message", "set_username"}
    /\ ev.sid \in used \ DOMAIN clients
    /\ HasString(ev.data, PayloadKey(ev.op))


\* a string of whitespace only (the empty string included)
Blank(s) == \A i \in 1..Len(s) : s[i] \in Whitespace

\* C21: every entry of the history is a chat-kind message whose text is not
\* blank; no system message (welcome, notice, joined, left, rename, clear)
\* is stored in the history.
C21_HistoryHoldsChatOnly ==
    \A i \in 1..Len(chat_history) :
        /\ chat_history[i].type = "chat"
        /\ ~Blank(chat_history[i].text)
        /\ chat_history[i].text = strip(chat_history[i].text)

C21_Witness ==
    /\ chat_history # <<>>
    /\ ev.op = "chat_message"
    /\ Emitted(out, "message")
    /\ out[1].data.type = "system"
    /\ "clear" \in DOMAIN out[1].data


\* the messages that were broadcast when they were posted
Broadcast == {posted[k] : k \in 1..Len(posted)}

\* C22: a history message replayed to a newly connected session is, field
\* for field (id, username, text, timestamp), a message that was broadcast
\* when it was posted, and no two replayed messages share an id, so a client
\* that drops the ids it has seen drops no other message.
C22_ReplayIsStable ==
    [][ev'.op = "connect"
       =>
       LET sent == ChatsSentTo(out', ev'.sid)
       IN /\ \A i \in 1..Len(sent) : sent[i] \in Broadcast
          /\ \A i \in 1..Len(sent), j \in 1..Len(sent) :
                 i # j => sent[i].id # sent[j].id
    ]_vars


\* "Guest_" followed by the first four characters of the id
GuestNameOf(sid) ==
    <<"G","u","e","s","t","_">> \o [i \in 1..Min(4, Len(sid)) |-> sid[i]]

\* C23: after connect(id) the new session's username is "Guest_" followed by
\* the first 4 characters of id, and the welcome message, sent to that
\* session alone, names exactly this username.
C23_GuestNameAndWelcome ==
    [][ev'.op = "connect"
       =>
       /\ clients'[ev'.sid].username = GuestNameOf(ev'.sid)
       /\ out'[1].event = "message"
       /\ out'[1].to = {ev'.sid}
       /\ out'[1].data.type = "system"
       /\ out'[1].data.text
              = <<"Welcome to the chat, ">> \o GuestNameOf(ev'.sid)
                \o <<"! Type /clear to clear your chat history.">>
    ]_vars

C23_Witness ==
    /\ ev.op = "connect"
    /\ Len(ev.sid) > 4
    /\ clients[ev.sid].username = GuestNameOf(ev.sid)
    /\ Len(clients[ev.sid].username) = 10
    /\ IdStartsWith(out[1], "welcome_")
    /\ Cardinality(DOMAIN clients) = 2


\* C24: a chat_message from a known session whose text is empty or only
\* whitespace is a no-op: history and registry stay as they are and nothing
\* is emitted to any session, the sender included.
C24_BlankTextIsNoop ==
    [][(/\ ev'.op = "chat_message"
        /\ Known(ev'.sid)
        /\ HasString(ev'.data, "text")
        /\ Blank(ev'.data.items["text"].chars))
       =>
       /\ chat_history' = chat_history
       /\ posted' = posted
       /\ clients' = clients
       /\ out' = <<>>
       /\ error' = "none"
    ]_vars

C24_Witness ==
    /\ ev.op = "chat_message"
    /\ Known(ev.sid)
    /\ HasString(ev.data, "text")
    /\ Blank(ev.data.items["text"].chars)
    /\ ev.data.items["text"].chars # <<>>
    /\ chat_history # <<>>
    /\ Cardinality(DOMAIN clients) = 2
    /\ out = <<>>


\* C25: every username in the registry is non-empty and at most 20
\* characters long, and one that was set by a rename (it is not the guest
\* name given on connect) neither starts nor ends with whitespace.
C25_UsernamesWellFormed ==
    \A sid \in DOMAIN clients :
        LET name == clients[sid].username
        IN /\ name # <<>>
           /\ Len(name) <= 20
           /\ \/ name = GuestNameOf(sid)
              \/ /\ Head(name) \notin Whitespace
                 /\ Last(name) \notin Whitespace

C25_Witness ==
    /\ ev.op = "set_username"
    /\ Known(ev.sid)
    /\ HasString(ev.data, "username")
    /\ Head(ev.data.items["username"].chars) \in Whitespace
    /\ Emitted(out, "username_changed")
    /\ clients[ev.sid].username # GuestNameOf(ev.sid)
    /\ clients[ev.sid].username = Trimmed(ev.data, "username")


\* the session id at the end of a chat message's id
PostedBy(msg, sid) ==
    /\ Len(msg.id) >= Len(sid)
    /\ SubSeq(msg.id, Len(msg.id) - Len(sid) + 1, Len(msg.id)) = sid

\* C26: stored chat messages are immutable: a message is stored with the
\* username its poster has at posting time, no later event (a rename or a
\* disconnect of the poster included) changes a stored message, and a replay
\* sends the stored messages as they were broadcast.
C26_StoredMessagesImmutable ==
    [][/\ \/ chat_history' = chat_history
          \/ /\ ev'.op = "chat_message"
             /\ chat_history' # <<>>
             /\ Last(chat_history').username = clients[ev'.sid].username
             /\ PostedBy(Last(chat_history'), ev'.sid)
             /\ \E k \in 0..1 :
                    Front(chat_history')
                        = SubSeq(chat_history, 1 + k, Len(chat_history))
       /\ ev'.op \in {"set_username", "disconnect", "connect", "stats"}
              => chat_history' = chat_history
       /\ \A i \in 1..Len(chat_history') : chat_history'[i] \in Broadcast'
       /\ ev'.op = "connect"
              => \A i \in 1..Len(ChatsSentTo(out', ev'.sid)) :
                     ChatsSentTo(out', ev'.sid)[i] \in Broadcast
    ]_vars

C26_Witness ==
    /\ ev.op = "connect"
    /\ ev.sid = SidB
    /\ Len(ChatsSentTo(out, SidB)) = 1
    /\ PostedBy(ChatsSentTo(out, SidB)[1], SidA)
    /\ ChatsSentTo(out, SidB)[1].username = GuestNameOf(SidA)
    /\ SidA \in DOMAIN clients
    /\ clients[SidA].username = <<"b","o","b">>
    /\ chat_history[1].username = GuestNameOf(SidA)


\* C27: each handler changes its own part of the state only: chat_message
\* leaves the registry alone; connect, disconnect and set_username leave the
\* history alone; set_username changes nothing but the requester's username:
\* the set of ids, the requester's connect time and remote address and every
\* other session's entry stay as they are.
C27_Frame ==
    [][/\ ev'.op = "chat_message" => clients' = clients /\ keys' = keys
       /\ ev'.op \in {"connect", "disconnect", "set_username"}
              => chat_history' = chat_history /\ posted' = posted
       /\ ev'.op = "set_username"
              => /\ DOMAIN clients' = DOMAIN clients
                 /\ keys' = keys
                 /\ \A s \in DOMAIN clients \ {ev'.sid} : clients'[s] = clients[s]
                 /\ Known(ev'.sid)
                        => /\ clients'[ev'.sid].connected_at
                                  = clients[ev'.sid].connected_at
                           /\ clients'[ev'.sid].ip = clients[ev'.sid].ip
                           /\ DOMAIN clients'[ev'.sid] = DOMAIN clients[ev'.sid]
    ]_vars

C27_Witness ==
    /\ ev.op = "set_username"
    /\ ev.sid = SidA
    /\ Emitted(out, "username_changed")
    /\ clients[SidA].username = <<"b","o","b">>
    /\ clients[SidA].connected_at < now
    /\ clients[SidA].ip = "10.0.0.7"
    /\ SidB \in DOMAIN clients
    /\ clients[SidB].username = GuestNameOf(SidB)
    /\ chat_history # <<>>


\* session s0 has posted a message under `name`: it held the name then
HeldOnce(s0, name) ==
    \E i \in 1..Len(posted) :
        posted[i].username = name /\ PostedBy(posted[i], s0)

\* C28: a username is reserved only while its holder is in the registry: a
\* disconnect takes the leaver out of the holders of its name, a rename takes
\* the requester out of the holders of its old name, and a set_username to a
\* name that another session held once is rejected while that session still
\* holds it and succeeds once no other session in the registry holds it.
C28_NameReleased ==
    [][/\ (ev'.op = "disconnect" /\ Known(ev'.sid))
              => \A s \in DOMAIN clients \ {ev'.sid} :
                     Holders(clients', clients[s].username)
                         = Holders(clients, clients[s].username) \ {ev'.sid}
       /\ (/\ ev'.op = "set_username"
           /\ Known(ev'.sid)
           /\ HasString(ev'.data, "username")
           /\ Trimmed(ev'.data, "username") # <<>>
           /\ Len(Trimmed(ev'.data, "username")) <= 20)
              => LET sid == ev'.sid
                     name == Trimmed(ev'.data, "username")
                     old == clients[sid].username
                 IN /\ (Emitted(out', "username_changed") /\ name # old)
                           => Holders(clients', old) = Holders(clients, old) \ {sid}
                    /\ \A s0 \in used \ {sid} :
                           HeldOnce(s0, name)
                               => IF s0 \in Holders(clients, name)
                                  THEN /\ Emitted(out', "username_error")
                                       /\ clients' = clients
                                  ELSE Holders(clients, name) \ {sid} = {}
                                           => /\ Emitted(out', "username_changed")
                                              /\ clients'[sid].username = name
    ]_vars

\* SidB takes "bob" after SidA, who posted as "bob", has renamed itself away
C28_Witness ==
    /\ ev.op = "set_username"
    /\ ev.sid = SidB
    /\ Emitted(out, "username_changed")
    /\ clients[SidB].username = <<"b","o","b">>
    /\ HeldOnce(SidA, <<"b","o","b">>)
    /\ SidA \in DOMAIN clients
    /\ clients[SidA].username = <<"a","l">>

====
